---- MODULE Spec2Model ----
(***************************************************************************)
(* The order workflow of picnic-kitchen: the request handlers of main.py   *)
(* (add_to_order, update_item, delete_item, finalize_order, submit_order)  *)
(* over the store gateway of app/database.py and the forwarder of          *)
(* app/external_api.py.                                                    *)
(*                                                                         *)
(* A handler is a process; every store operation on daily_orders and the    *)
(* outbound POST is one atomic step, and handlers of concurrent requests   *)
(* interleave between those steps.  The arrival of a request, its          *)
(* validation and the reads of the tables the workflow never writes        *)
(* (dishes, cooks) are taken together with the handler's first step on     *)
(* daily_orders; submit_order's log entries, written to a table no handler *)
(* reads, are taken together with its POST.                                *)
(***************************************************************************)
EXTENDS Integers, Sequences, FiniteSets, Bags, TLC

\* Python's None for the string-valued fields, and the truth test `if x:`.
None == "None"
Truthy(x) == x \notin {None, ""}

\* ----------------------------------------------------------------- bounds
\* Requests the model lets arrive in one behaviour.
MaxRequests == 2
\* Store calls the model lets raise in one behaviour.
MaxFaults == 1

\* ------------------------------------------------------ program constants
MinQuantity == 1
MaxQuantity == 500
\* date.today(), as a day number; Today - 1 is a date in the past.
Today == 1

Procs == {1, 2}
Dates == {Today - 1, Today}

\* The dishes and cooks tables: written by the data load only.
dishes ==
  { [id |-> "d1", name |-> "D1", default_cook_id |-> "c1", preparation_time |-> {30}],
    [id |-> "d2", name |-> "D2", default_cook_id |-> None, preparation_time |-> {}] }
cooks ==
  { [id |-> "c1", name |-> "C1"], [id |-> "c2", name |-> "C2"] }

\* A cook id that references no cook, and a dish id that references no dish.
NoSuchCook == "cX"
NoSuchDish == "dX"

VARIABLES
  daily_orders,       \* the daily_orders table: a set of rows
  next_id,            \* the next row id the store hands out
  external_sync_log,  \* the external_sync_log table: a bag of entries
  base_url,           \* settings.external_api_url
  pc,                 \* each handler's position
  order_data,         \* add_to_order: the row to upsert
  existing,           \* upsert_daily_order: existing.data[0], if any
  orders,             \* finalize_order: the rows it fetched
  order,              \* submit_order: the request body
  created_orders,     \* submit_order: the ids of the rows it inserted
  idx,                \* finalize_order, submit_order: the loop position
  sync_result,        \* finalize_order, submit_order: what send_order returned
  response,           \* the response the last step sent, if it sent one
  nreq,               \* requests arrived so far
  faults              \* store calls that raised so far

store == <<daily_orders, next_id, external_sync_log>>
addLocals == <<order_data, existing>>
syncLocals == <<orders, order, created_orders, idx, sync_result>>
vars == <<daily_orders, next_id, external_sync_log, base_url, pc, order_data,
          existing, orders, order, created_orders, idx, sync_result, response, nreq,
          faults>>

\* ------------------------------------------------------------ the store

\* A step names the store call that raises in it, or "none".
Raises(fault) ==
  /\ fault # "none" => faults < MaxFaults
  /\ faults' = IF fault = "none" THEN faults ELSE faults + 1

\* get_dish_by_id: the dish, or None when it is absent or the query raised.
get_dish_by_id(dish_id, store_ok) ==
  IF store_ok THEN {d \in dishes : d.id = dish_id} ELSE {}

\* get_cook_by_id: likewise.
get_cook_by_id(cook_id, store_ok) ==
  IF store_ok THEN {c \in cooks : c.id = cook_id} ELSE {}

\* A variant of the select below: without its order_date filter.
LinesOf_any_date(table, order_date, dish_id) ==
  {r \in table : r.dish_id = dish_id}

\* The rows of one (order_date, dish_id) key.
LinesOf(table, order_date, dish_id) ==
  {r \in table : r.order_date = order_date /\ r.dish_id = dish_id}

\* The foreign keys of daily_orders the joins of get_today_orders embed through:
\* a write whose dish_id or non-null assigned_cook_id references no row raises.
ForeignKeys(dish_id, cook_id) ==
  /\ dish_id \in {d.id : d \in dishes}
  /\ cook_id \in {c.id : c \in cooks} \cup {None}

\* create_daily_order: insert one row; the store gives it its id.
create_daily_order(table, id, data) ==
  table \cup {[id |-> id,
               order_date |-> data.order_date,
               dish_id |-> data.dish_id,
               assigned_cook_id |-> data.assigned_cook_id,
               quantity |-> data.quantity,
               notes |-> data.notes,
               status |-> data.status]}

\* A variant of the update below: the line's cook is overwritten as well.
UpsertUpdate_reassign(table, order_id, new_quantity, notes) ==
  {IF r.id = order_id
     THEN [r EXCEPT !.quantity = new_quantity, !.notes = notes, !.assigned_cook_id = "c2"]
     ELSE r : r \in table}

\* A variant of the update below: the new notes are appended to the line's notes.
UpsertUpdate_merge_notes(table, order_id, new_quantity, notes) ==
  {IF r.id = order_id
     THEN [r EXCEPT !.quantity = new_quantity, !.notes = r.notes \o "/" \o notes]
     ELSE r : r \in table}

\* update(...).eq('id', order_id) with the quantity and notes of an upsert.
UpsertUpdate(table, order_id, new_quantity, notes) ==
  {IF r.id = order_id
     THEN [r EXCEPT !.quantity = new_quantity, !.notes = notes]
     ELSE r : r \in table}

\* ---------------------------------------------------------- add_to_order

AddRequest(order_date, dish_id, quantity, notes, assigned_cook_id) ==
  [order_date |-> order_date, dish_id |-> dish_id, quantity |-> quantity,
   notes |-> notes, assigned_cook_id |-> assigned_cook_id]

\* The request bodies the model lets arrive: a base request and the requests that
\* differ from it in the field one branch of the handler reads.
AddToOrderRequest ==
  { AddRequest(Today, "d1", 200, None, None),
    AddRequest(Today, "d1", 300, "n", None),
    AddRequest(Today, "d1", 200, None, "c2"),
    AddRequest(Today, "d1", 100, None, "c2"),
    AddRequest(Today, "d1", 200, None, ""),
    AddRequest(Today, "d1", 200, None, NoSuchCook),
    AddRequest(Today, "d2", 200, None, None),
    AddRequest(Today, "d2", 200, None, "c2"),
    AddRequest(Today, NoSuchDish, 200, None, None),
    AddRequest(Today - 1, "d1", 200, None, None),
    AddRequest(Today, "d1", 0, None, None),
    AddRequest(Today, "d1", 501, None, None) }

\* AddToOrderRequest's field constraints (quantity: ge=1, le=500).
ValidAddToOrderRequest(request) ==
  request.quantity >= MinQuantity /\ request.quantity <= MaxQuantity

\* A variant of the resolution below: the dish's default before the explicit cook.
ResolveCook_default_first(assigned_cook_id, dish) ==
  IF Truthy(dish.default_cook_id) THEN dish.default_cook_id
  ELSE IF Truthy(assigned_cook_id) THEN assigned_cook_id
  ELSE None

\* A variant of the resolution below: some cook when the dish has no default.
ResolveCook_some_cook(assigned_cook_id, dish) ==
  IF Truthy(assigned_cook_id) THEN assigned_cook_id
  ELSE IF Truthy(dish.default_cook_id) THEN dish.default_cook_id
  ELSE "c1"

\* The cook of a request: the explicit one, else the dish's default, else none.
ResolveCook(assigned_cook_id, dish) ==
  IF Truthy(assigned_cook_id) THEN assigned_cook_id
  ELSE IF Truthy(dish.default_cook_id) THEN dish.default_cook_id
  ELSE None

\* f"{request.notes or ''}\nיחידה: {request.unit}".strip(), unit left at its default.
FormatNotes(notes) ==
  IF Truthy(notes) THEN notes \o "/unit" ELSE "unit"

NoOrderData ==
  [order_date |-> Today, dish_id |-> None, assigned_cook_id |-> None,
   quantity |-> 0, status |-> None, notes |-> None]

NoData ==
  [total_dishes |-> 0, items_count |-> 0, external_sync |-> FALSE, external_error |-> None]

Respond(code, detail) == [code |-> code, detail |-> detail, data |-> NoData]

\* No response leaves in a step that does not end a request.
NoResponse == Respond(0, None)

Idle(p) == pc[p] = "idle"

\* A request arrives at a free handler (the first one: they are interchangeable)
\* while the model admits requests.
Arrives(p) ==
  /\ Idle(p)
  /\ \A q \in Procs : q < p => ~Idle(q)
  /\ nreq < MaxRequests

NoOrder == [order_date |-> Today, items |-> <<>>]
NoResult ==
  [success |-> FALSE, error |-> None, error_type |-> None, skipped |-> FALSE, posted |-> 0]

\* add_to_order up to and including upsert_daily_order's select.
\* fault: the store read that raises ("dish", "select"), if any; first: the row
\* the select returns first.
AddToOrderStep(p, request, fault, first) ==
  LET dish == get_dish_by_id(request.dish_id, fault # "dish")
      theDish == CHOOSE d \in dish : TRUE
      cook_id == ResolveCook(request.assigned_cook_id, theDish)
      found == LinesOf(daily_orders, request.order_date, request.dish_id)
      Reject(code, detail) ==
        /\ response' = Respond(code, detail)
        /\ UNCHANGED <<pc, order_data, existing>>
  IN
  /\ Arrives(p)
  /\ nreq' = nreq + 1
  /\ UNCHANGED <<store, base_url, syncLocals>>
  /\ Raises(fault)
  /\ IF ~ValidAddToOrderRequest(request) THEN fault = "none" /\ Reject(422, "validation")
     ELSE IF dish = {} THEN fault \in {"none", "dish"} /\ Reject(404, "dish")
     ELSE IF cook_id = None THEN fault = "none" /\ Reject(400, "no_default_cook")
     ELSE IF fault = "select" THEN Reject(500, "store")
     ELSE /\ first \in (IF found = {} THEN {0} ELSE {r.id : r \in found})
          /\ pc' = [pc EXCEPT ![p] = "upsert_write"]
          /\ order_data' = [order_data EXCEPT ![p] =
               [order_date |-> request.order_date,
                dish_id |-> request.dish_id,
                assigned_cook_id |-> cook_id,
                quantity |-> request.quantity,
                status |-> "pending",
                notes |-> FormatNotes(request.notes)]]
          /\ existing' = [existing EXCEPT ![p] =
               {[id |-> r.id, quantity |-> r.quantity] : r \in {x \in found : x.id = first}}]
          /\ response' = NoResponse

add_to_order(p) ==
  \E request \in AddToOrderRequest, fault \in {"none", "dish", "select"},
     first \in 0..(next_id - 1) :
    AddToOrderStep(p, request, fault, first)

\* upsert_daily_order's write: update the row it read, or insert a new one.
UpsertWriteStep(p, fault) ==
  /\ pc[p] = "upsert_write"
  /\ Raises(fault)
  /\ pc' = [pc EXCEPT ![p] = "idle"]
  /\ order_data' = [order_data EXCEPT ![p] = NoOrderData]
  /\ existing' = [existing EXCEPT ![p] = {}]
  /\ UNCHANGED <<external_sync_log, base_url, nreq, syncLocals>>
  /\ IF fault = "write" \/ (existing[p] = {} /\ ~ForeignKeys(order_data[p].dish_id,
                                                      order_data[p].assigned_cook_id))
       THEN /\ response' = Respond(500, "store")
            /\ UNCHANGED <<daily_orders, next_id>>
       ELSE /\ response' = Respond(200, "added")
            /\ IF existing[p] # {}
                 THEN LET e == CHOOSE x \in existing[p] : TRUE IN
                      /\ daily_orders' = UpsertUpdate(daily_orders, e.id,
                                            e.quantity + order_data[p].quantity,
                                            order_data[p].notes)
                      /\ UNCHANGED next_id
                 ELSE /\ daily_orders' = create_daily_order(daily_orders, next_id, order_data[p])
                      /\ next_id' = next_id + 1

upsert_daily_order(p) == \E fault \in {"none", "write"} : UpsertWriteStep(p, fault)

\* ------------------------------------------------- update_item, delete_item

\* A dict of the columns to write: each column absent ({}) or present ({value}).
UpdateData(quantity, notes, assigned_cook_id, status) ==
  [quantity |-> quantity, notes |-> notes, assigned_cook_id |-> assigned_cook_id,
   status |-> status]

Get(option, default) == IF option = {} THEN default ELSE CHOOSE v \in option : TRUE

\* A variant of update_order_item below: the update reaches every row of the
\* date of the row with that id.
update_order_item_by_date(table, order_id, update_data) ==
  {IF \E x \in table : x.id = order_id /\ x.order_date = r.order_date
     THEN [r EXCEPT !.quantity = Get(update_data.quantity, @),
                    !.notes = Get(update_data.notes, @),
                    !.assigned_cook_id = Get(update_data.assigned_cook_id, @),
                    !.status = Get(update_data.status, @)]
     ELSE r : r \in table}

\* update_order_item: update(update_data).eq('id', order_id).
update_order_item(table, order_id, update_data) ==
  {IF r.id = order_id
     THEN [r EXCEPT !.quantity = Get(update_data.quantity, @),
                    !.notes = Get(update_data.notes, @),
                    !.assigned_cook_id = Get(update_data.assigned_cook_id, @),
                    !.status = Get(update_data.status, @)]
     ELSE r : r \in table}

\* delete_order_item: delete().eq('id', order_id).
delete_order_item(table, order_id) == {r \in table : r.id # order_id}

\* The query parameters of PUT /order-item/{id}: quantity is an int or absent
\* ({}), notes and assigned_cook_id a string or None.
UpdateItemRequest ==
  { [quantity |-> {0}, notes |-> "m", assigned_cook_id |-> None],
    [quantity |-> {}, notes |-> None, assigned_cook_id |-> "c2"],
    [quantity |-> {}, notes |-> None, assigned_cook_id |-> NoSuchCook],
    [quantity |-> {}, notes |-> None, assigned_cook_id |-> ""],
    [quantity |-> {}, notes |-> None, assigned_cook_id |-> None] }

\* A variant of update_data below: assigned_cook_id written even when absent.
UpdateItemData_null_cook(request) ==
  UpdateData(request.quantity,
             IF request.notes # None THEN {request.notes} ELSE {},
             {request.assigned_cook_id},
             {})

\* update_item's update_data: the fields the request supplies.
UpdateItemData(request) ==
  UpdateData(request.quantity,
             IF request.notes # None THEN {request.notes} ELSE {},
             IF Truthy(request.assigned_cook_id) THEN {request.assigned_cook_id} ELSE {},
             {})

EmptyUpdate(update_data) ==
  /\ update_data.quantity = {} /\ update_data.notes = {}
  /\ update_data.assigned_cook_id = {} /\ update_data.status = {}

UpdateItemStep(p, order_id, request, fault) ==
  LET update_data == UpdateItemData(request)
      hit == {r \in daily_orders : r.id = order_id}
      raises == \/ fault = "write"
                \/ /\ hit # {}
                   /\ update_data.assigned_cook_id # {}
                   /\ \E r \in hit :
                        ~ForeignKeys(r.dish_id, Get(update_data.assigned_cook_id, None))
  IN
  /\ Arrives(p)
  /\ nreq' = nreq + 1
  /\ UNCHANGED <<next_id, external_sync_log, base_url, pc, addLocals, syncLocals>>
  /\ Raises(fault)
  /\ IF EmptyUpdate(update_data)
       THEN fault = "none" /\ response' = Respond(400, "empty_update") /\ UNCHANGED daily_orders
     ELSE IF raises
       THEN response' = Respond(500, "store") /\ UNCHANGED daily_orders
     ELSE IF hit = {}
       THEN response' = Respond(404, "order_item") /\ UNCHANGED daily_orders
     ELSE /\ response' = Respond(200, "updated")
          /\ daily_orders' = update_order_item(daily_orders, order_id, update_data)

update_item(p) ==
  \E order_id \in 0..(next_id - 1), request \in UpdateItemRequest, fault \in {"none", "write"} :
    UpdateItemStep(p, order_id, request, fault)

DeleteItemStep(p, order_id, fault) ==
  /\ Arrives(p)
  /\ nreq' = nreq + 1
  /\ UNCHANGED <<next_id, external_sync_log, base_url, pc, addLocals, syncLocals>>
  /\ Raises(fault)
  /\ IF fault = "write"
       THEN response' = Respond(500, "store") /\ UNCHANGED daily_orders
       ELSE /\ response' = Respond(200, "deleted")
            /\ daily_orders' = delete_order_item(daily_orders, order_id)

delete_item(p) ==
  \E order_id \in 0..(next_id - 1), fault \in {"none", "write"} :
    DeleteItemStep(p, order_id, fault)

\* ------------------------------------------------------------ send_order

\* What the one POST of send_order can come to.
HttpOutcomes ==
  {"2xx_json", "2xx_empty", "2xx_not_json", "non_2xx", "timeout", "transport", "other"}

\* The result dict: success, error (None, or "error" for any message),
\* error_type, skipped, and whether the POST was made.
SyncResult(success, error, error_type, skipped, posted) ==
  [success |-> success, error |-> error, error_type |-> error_type,
   skipped |-> skipped, posted |-> posted]

\* A variant of send_order below: the POST is made whether or not a URL is set.
send_order_unconfigured(url, http) ==
  CASE http \in {"2xx_json", "2xx_empty"} -> SyncResult(TRUE, None, None, FALSE, 1)
    [] http = "timeout" -> SyncResult(FALSE, "error", "timeout", FALSE, 1)
    [] http = "non_2xx" -> SyncResult(FALSE, "error", "http_error", FALSE, 1)
    [] http = "transport" -> SyncResult(FALSE, "error", "connection_error", FALSE, 1)
    [] OTHER -> SyncResult(FALSE, "error", "unknown", FALSE, 1)

\* A variant of send_order below without the last except clause: an exception
\* that is none of httpx's leaves the function, written here as "raised".
send_order_uncaught(url, http) ==
  IF ~Truthy(url) THEN SyncResult(FALSE, "error", None, TRUE, 0)
  ELSE CASE http \in {"2xx_json", "2xx_empty"} -> SyncResult(TRUE, None, None, FALSE, 1)
         [] http = "timeout" -> SyncResult(FALSE, "error", "timeout", FALSE, 1)
         [] http = "non_2xx" -> SyncResult(FALSE, "error", "http_error", FALSE, 1)
         [] http = "transport" -> SyncResult(FALSE, "error", "connection_error", FALSE, 1)
         [] OTHER -> SyncResult(FALSE, "error", "raised", FALSE, 1)

\* A variant of send_order below: a timed-out POST is made a second time.
send_order_retry(url, http) ==
  IF ~Truthy(url) THEN SyncResult(FALSE, "error", None, TRUE, 0)
  ELSE CASE http \in {"2xx_json", "2xx_empty"} -> SyncResult(TRUE, None, None, FALSE, 1)
         [] http = "timeout" -> SyncResult(FALSE, "error", "timeout", FALSE, 2)
         [] http = "non_2xx" -> SyncResult(FALSE, "error", "http_error", FALSE, 1)
         [] http = "transport" -> SyncResult(FALSE, "error", "connection_error", FALSE, 1)
         [] OTHER -> SyncResult(FALSE, "error", "unknown", FALSE, 1)

\* send_order: no POST without a URL; else one POST, and its outcome classified.
\* A 2xx whose non-empty body is not JSON makes response.json() raise inside
\* the try, which the last except clause classifies.
send_order(url, http) ==
  IF ~Truthy(url) THEN SyncResult(FALSE, "error", None, TRUE, 0)
  ELSE CASE http \in {"2xx_json", "2xx_empty"} -> SyncResult(TRUE, None, None, FALSE, 1)
         [] http = "timeout" -> SyncResult(FALSE, "error", "timeout", FALSE, 1)
         [] http = "non_2xx" -> SyncResult(FALSE, "error", "http_error", FALSE, 1)
         [] http = "transport" -> SyncResult(FALSE, "error", "connection_error", FALSE, 1)
         [] OTHER -> SyncResult(FALSE, "error", "unknown", FALSE, 1)

\* The keys of the result the handlers read afterwards: sync_result.get('success')
\* and sync_result.get('error'); error_type is read by nobody.
Kept(result) == [result EXCEPT !.error_type = None]

\* A variant of log_external_sync below: the entry replaces the line's earlier ones.
log_external_sync_replace(log, log_data) ==
  SetToBag({e \in BagToSet(log) : e.order_id # log_data.order_id}) (+) SetToBag({log_data})

\* log_external_sync: insert one entry.
log_external_sync(log, log_data) == log (+) SetToBag({log_data})

LogData(order_id, result) ==
  [order_id |-> order_id,
   sync_status |-> IF result.success THEN "success" ELSE "failed",
   error_message |-> result.error]

\* -------------------------------------------------------- finalize_order

\* A variant of get_today_orders below: without its order_date filter.
get_today_orders_any_date(table, order_date) == table

\* get_today_orders: the rows of one date, in the order of their ids.
get_today_orders(table, order_date) == {r \in table : r.order_date = order_date}

RECURSIVE ById(_)
ById(rows) ==
  IF rows = {} THEN <<>>
  ELSE LET r == CHOOSE x \in rows : \A y \in rows : x.id <= y.id
       IN <<r>> \o ById(rows \ {r})

RECURSIVE TotalQuantity(_)
TotalQuantity(rows) ==
  IF rows = <<>> THEN 0 ELSE Head(rows).quantity + TotalQuantity(Tail(rows))

\* A variant of the payload check below: only the total is constrained.
PayloadBuilds_total_only(rows) ==
  /\ TotalQuantity(rows) >= 1
  /\ Len(rows) >= 1

\* ExternalOrderItem (quantity: ge=1) and ExternalOrderPayload (total_dishes:
\* ge=1, items: min_length=1) accept the fetched rows.
PayloadBuilds(rows) ==
  /\ \A i \in 1..Len(rows) : rows[i].quantity >= 1
  /\ TotalQuantity(rows) >= 1
  /\ Len(rows) >= 1

\* A variant of new_status below: a skipped forward counted as a success.
NewStatus_skipped_completed(result) ==
  IF result.success \/ result.skipped THEN "completed" ELSE "cancelled"

\* new_status = 'completed' if sync_result.get('success') else 'cancelled'
NewStatus(result) == IF result.success THEN "completed" ELSE "cancelled"

\* A variant of SyncData below: the error of a failed forwarding is left out.
SyncData_no_error(rows, result) ==
  [total_dishes |-> TotalQuantity(rows), items_count |-> Len(rows),
   external_sync |-> result.success,
   external_error |-> None]

SyncData(rows, result) ==
  [total_dishes |-> TotalQuantity(rows), items_count |-> Len(rows),
   external_sync |-> result.success,
   external_error |-> IF ~result.success THEN result.error ELSE None]

Return(p) ==
  /\ pc' = [pc EXCEPT ![p] = "idle"]
  /\ orders' = [orders EXCEPT ![p] = <<>>]
  /\ order' = [order EXCEPT ![p] = NoOrder]
  /\ created_orders' = [created_orders EXCEPT ![p] = <<>>]
  /\ idx' = [idx EXCEPT ![p] = 0]
  /\ sync_result' = [sync_result EXCEPT ![p] = NoResult]

\* finalize_order up to the payload: fetch the date's rows, build the payload.
FinalizeFetchStep(p, order_date, fault) ==
  LET rows == ById(get_today_orders(daily_orders, order_date))
      Reject(code, detail) ==
        /\ response' = Respond(code, detail)
        /\ UNCHANGED <<pc, syncLocals>>
  IN
  /\ Arrives(p)
  /\ nreq' = nreq + 1
  /\ UNCHANGED <<store, base_url, addLocals>>
  /\ Raises(fault)
  /\ IF fault = "fetch" THEN Reject(500, "store")
     ELSE IF rows = <<>> THEN Reject(404, "no_orders")
     ELSE IF ~PayloadBuilds(rows) THEN Reject(500, "payload")
     ELSE /\ pc' = [pc EXCEPT ![p] = "finalize_send"]
          /\ orders' = [orders EXCEPT ![p] = rows]
          /\ UNCHANGED <<order, created_orders, idx, sync_result>>
          /\ response' = NoResponse

finalize_order(p) ==
  \E order_date \in Dates, fault \in {"none", "fetch"} :
    FinalizeFetchStep(p, order_date, fault)

\* A variant of the send step below: the first line's log entry is written
\* before its status update.
FinalizeSendStep_log_first(p, http) ==
  /\ pc[p] = "finalize_send"
  /\ pc' = [pc EXCEPT ![p] = "finalize_log"]
  /\ sync_result' = [sync_result EXCEPT ![p] = Kept(send_order(base_url, http))]
  /\ idx' = [idx EXCEPT ![p] = 1]
  /\ UNCHANGED <<store, base_url, addLocals, orders, order, created_orders, nreq, faults>>
  /\ response' = NoResponse

\* sync_result = await external_client.send_order(external_payload)
FinalizeSendStep(p, http) ==
  /\ pc[p] = "finalize_send"
  /\ pc' = [pc EXCEPT ![p] = "finalize_update"]
  /\ sync_result' = [sync_result EXCEPT ![p] = Kept(send_order(base_url, http))]
  /\ idx' = [idx EXCEPT ![p] = 1]
  /\ UNCHANGED <<store, base_url, addLocals, orders, order, created_orders, nreq, faults>>
  /\ response' = NoResponse

finalize_send(p) == \E http \in HttpOutcomes : FinalizeSendStep(p, http)

\* A variant of the update step below: a failed update puts the fetched lines
\* back to the status they were fetched with.
FinalizeUpdateStep_rollback(p, fault) ==
  /\ pc[p] = "finalize_update"
  /\ Raises(fault)
  /\ UNCHANGED <<next_id, external_sync_log, base_url, addLocals, nreq>>
  /\ IF fault = "write"
       THEN /\ response' = Respond(500, "store")
            /\ Return(p)
            /\ daily_orders' =
                 {IF \E i \in 1..Len(orders[p]) : orders[p][i].id = r.id
                    THEN [r EXCEPT !.status =
                            orders[p][CHOOSE i \in 1..Len(orders[p]) :
                                        orders[p][i].id = r.id].status]
                    ELSE r : r \in daily_orders}
       ELSE /\ daily_orders' = update_order_item(daily_orders, orders[p][idx[p]].id,
                                  UpdateData({}, {}, {}, {NewStatus(sync_result[p])}))
            /\ pc' = [pc EXCEPT ![p] = "finalize_log"]
            /\ UNCHANGED <<syncLocals>>
            /\ response' = NoResponse

\* await update_order_item(order['id'], {'status': new_status})
FinalizeUpdateStep(p, fault) ==
  /\ pc[p] = "finalize_update"
  /\ Raises(fault)
  /\ UNCHANGED <<next_id, external_sync_log, base_url, addLocals, nreq>>
  /\ IF fault = "write"
       THEN /\ response' = Respond(500, "store")
            /\ Return(p)
            /\ UNCHANGED daily_orders
       ELSE /\ daily_orders' = update_order_item(daily_orders, orders[p][idx[p]].id,
                                  UpdateData({}, {}, {}, {NewStatus(sync_result[p])}))
            /\ pc' = [pc EXCEPT ![p] = "finalize_log"]
            /\ UNCHANGED <<syncLocals>>
            /\ response' = NoResponse

finalize_update(p) == \E fault \in {"none", "write"} : FinalizeUpdateStep(p, fault)

\* A variant of the log step below: a failed log write ends the call with 500.
FinalizeLogStep_raises(p, fault) ==
  /\ pc[p] = "finalize_log"
  /\ Raises(fault)
  /\ UNCHANGED <<daily_orders, next_id, base_url, addLocals, nreq>>
  /\ IF fault = "log"
       THEN /\ response' = Respond(500, "store")
            /\ Return(p)
            /\ UNCHANGED external_sync_log
       ELSE /\ external_sync_log' =
                 log_external_sync(external_sync_log,
                                   LogData(orders[p][idx[p]].id, sync_result[p]))
            /\ IF idx[p] < Len(orders[p])
                 THEN /\ idx' = [idx EXCEPT ![p] = idx[p] + 1]
                      /\ pc' = [pc EXCEPT ![p] = "finalize_update"]
                      /\ UNCHANGED <<orders, order, created_orders, sync_result>>
                      /\ response' = NoResponse
                 ELSE /\ response' = [code |-> 201, detail |-> "finalized",
                                      data |-> SyncData(orders[p], sync_result[p])]
                      /\ Return(p)

\* await log_external_sync(log_data), whose failure the gateway swallows; then
\* the next row or the response.
FinalizeLogStep(p, fault) ==
  /\ pc[p] = "finalize_log"
  /\ Raises(fault)
  /\ UNCHANGED <<daily_orders, next_id, base_url, addLocals, nreq>>
  /\ external_sync_log' =
       IF fault = "none"
         THEN log_external_sync(external_sync_log,
                                LogData(orders[p][idx[p]].id, sync_result[p]))
         ELSE external_sync_log
  /\ IF idx[p] < Len(orders[p])
       THEN /\ idx' = [idx EXCEPT ![p] = idx[p] + 1]
            /\ pc' = [pc EXCEPT ![p] = "finalize_update"]
            /\ UNCHANGED <<orders, order, created_orders, sync_result>>
            /\ response' = NoResponse
       ELSE /\ response' = [code |-> 201, detail |-> "finalized",
                            data |-> SyncData(orders[p], sync_result[p])]
            /\ Return(p)

finalize_log(p) == \E fault \in {"none", "log"} : FinalizeLogStep(p, fault)

\* ---------------------------------------------------------- submit_order

Item(dish_id, quantity, assigned_cook_id) ==
  [dish_id |-> dish_id, quantity |-> quantity, assigned_cook_id |-> assigned_cook_id,
   notes |-> None]

OrderOf(order_date, items) == [order_date |-> order_date, items |-> items]

\* The request bodies the model lets arrive.
OrderCreate ==
  { OrderOf(Today, <<Item("d1", 200, "c2")>>),
    OrderOf(Today, <<Item("d1", 200, None), Item("d1", 200, "c2")>>),
    OrderOf(Today, <<Item("d2", 200, "c2"), Item("d2", 200, None)>>),
    OrderOf(Today, <<Item("d1", 200, None), Item("d1", 200, NoSuchCook)>>),
    OrderOf(Today, <<Item(NoSuchDish, 200, None)>>),
    OrderOf(Today - 1, <<Item("d1", 200, None)>>),
    OrderOf(Today, <<Item("d1", 200, None), Item("d1", 501, None)>>),
    OrderOf(Today, <<Item("d1", 0, None)>>),
    OrderOf(Today, <<>>) }

\* OrderItemCreate.validate_quantity and its field bounds.
validate_quantity(v) == ~(v <= 0) /\ ~(v > MaxQuantity) /\ v >= MinQuantity

\* OrderCreate.validate_order_date: not before today.
validate_order_date(v) == ~(v < Today)

\* OrderCreate.validate_items_not_empty and min_length=1.
validate_items_not_empty(v) == Len(v) >= 1

ValidOrderCreate(request) ==
  /\ validate_order_date(request.order_date)
  /\ validate_items_not_empty(request.items)
  /\ \A i \in 1..Len(request.items) : validate_quantity(request.items[i].quantity)

\* A variant of the loop body below: a failing item removes the lines the call
\* has inserted.
SubmitItem_rollback(p, o, i, created, fault) ==
  LET item == o.items[i]
      dish == get_dish_by_id(item.dish_id, fault # "dish")
      theDish == CHOOSE d \in dish : TRUE
      cook == get_cook_by_id(item.assigned_cook_id, fault # "cook")
      assigned_cook_id == ResolveCook(item.assigned_cook_id, theDish)
      Fail(code, detail) ==
        /\ response' = Respond(code, detail)
        /\ Return(p)
        /\ daily_orders' =
             {r \in daily_orders : ~\E k \in 1..Len(created) : created[k] = r.id}
        /\ UNCHANGED next_id
  IN
  IF dish = {} THEN fault \in {"none", "dish"} /\ Fail(404, "dish")
  ELSE IF Truthy(item.assigned_cook_id) /\ cook = {}
    THEN fault \in {"none", "cook"} /\ Fail(404, "cook")
  ELSE IF assigned_cook_id = None THEN fault = "none" /\ Fail(400, "no_default_cook")
  ELSE IF fault = "write" \/ ~ForeignKeys(item.dish_id, assigned_cook_id)
    THEN Fail(500, "store")
  ELSE /\ fault = "none"
       /\ daily_orders' = create_daily_order(daily_orders, next_id,
                             [order_date |-> o.order_date,
                              dish_id |-> item.dish_id,
                              assigned_cook_id |-> assigned_cook_id,
                              quantity |-> item.quantity,
                              status |-> "pending",
                              notes |-> item.notes])
       /\ next_id' = next_id + 1
       /\ order' = [order EXCEPT ![p] = o]
       /\ created_orders' = [created_orders EXCEPT ![p] = Append(created, next_id)]
       /\ idx' = [idx EXCEPT ![p] = IF i < Len(o.items) THEN i + 1 ELSE 0]
       /\ pc' = [pc EXCEPT ![p] = IF i < Len(o.items) THEN "submit_item" ELSE "submit_send"]
       /\ UNCHANGED <<orders, sync_result>>
       /\ response' = NoResponse

\* One round of submit_order's loop: item i of request body o, after the rows
\* `created` were inserted.
SubmitItem(p, o, i, created, fault) ==
  LET item == o.items[i]
      dish == get_dish_by_id(item.dish_id, fault # "dish")
      theDish == CHOOSE d \in dish : TRUE
      cook == get_cook_by_id(item.assigned_cook_id, fault # "cook")
      assigned_cook_id == ResolveCook(item.assigned_cook_id, theDish)
      Fail(code, detail) ==
        /\ response' = Respond(code, detail)
        /\ Return(p)
        /\ UNCHANGED <<daily_orders, next_id>>
  IN
  IF dish = {} THEN fault \in {"none", "dish"} /\ Fail(404, "dish")
  ELSE IF Truthy(item.assigned_cook_id) /\ cook = {}
    THEN fault \in {"none", "cook"} /\ Fail(404, "cook")
  ELSE IF assigned_cook_id = None THEN fault = "none" /\ Fail(400, "no_default_cook")
  ELSE IF fault = "write" \/ ~ForeignKeys(item.dish_id, assigned_cook_id)
    THEN Fail(500, "store")
  ELSE /\ fault = "none"
       /\ daily_orders' = create_daily_order(daily_orders, next_id,
                             [order_date |-> o.order_date,
                              dish_id |-> item.dish_id,
                              assigned_cook_id |-> assigned_cook_id,
                              quantity |-> item.quantity,
                              status |-> "pending",
                              notes |-> item.notes])
       /\ next_id' = next_id + 1
       /\ order' = [order EXCEPT ![p] = o]
       /\ created_orders' = [created_orders EXCEPT ![p] = Append(created, next_id)]
       /\ idx' = [idx EXCEPT ![p] = IF i < Len(o.items) THEN i + 1 ELSE 0]
       /\ pc' = [pc EXCEPT ![p] = IF i < Len(o.items) THEN "submit_item" ELSE "submit_send"]
       /\ UNCHANGED <<orders, sync_result>>
       /\ response' = NoResponse

\* submit_order up to and including the insert of its first item.
SubmitOrderStep(p, request, fault) ==
  /\ Arrives(p)
  /\ nreq' = nreq + 1
  /\ UNCHANGED <<external_sync_log, base_url, addLocals>>
  /\ Raises(fault)
  /\ IF ~ValidOrderCreate(request)
       THEN /\ fault = "none"
            /\ response' = Respond(422, "validation")
            /\ UNCHANGED <<daily_orders, next_id, pc, syncLocals>>
       ELSE SubmitItem(p, request, 1, <<>>, fault)

submit_order(p) ==
  \E request \in OrderCreate, fault \in {"none", "dish", "cook", "write"} :
    SubmitOrderStep(p, request, fault)

\* The loop's later rounds.
SubmitItemStep(p, fault) ==
  /\ pc[p] = "submit_item"
  /\ Raises(fault)
  /\ UNCHANGED <<external_sync_log, base_url, addLocals, nreq>>
  /\ SubmitItem(p, order[p], idx[p], created_orders[p], fault)

submit_item(p) ==
  \E fault \in {"none", "dish", "cook", "write"} : SubmitItemStep(p, fault)

\* The entries submit_order logs, one per created row; the insert of entry
\* `lost`, if any, raises and the gateway swallows it.
RECURSIVE LogCreated(_, _, _, _, _)
LogCreated(log, created, i, result, lost) ==
  IF i > Len(created) THEN log
  ELSE LogCreated(IF i = lost THEN log
                  ELSE log_external_sync(log, LogData(created[i], result)),
                  created, i + 1, result, lost)

\* A variant of the send step below: a successful forward marks the created
\* lines completed.
SubmitSendStep_completes(p, http, lost) ==
  LET result == Kept(send_order(base_url, http)) IN
  /\ pc[p] = "submit_send"
  /\ Raises(IF lost = 0 THEN "none" ELSE "log")
  /\ external_sync_log' = LogCreated(external_sync_log, created_orders[p], 1, result, lost)
  /\ response' = [code |-> 201, detail |-> "submitted",
                  data |-> [SyncData(order[p].items, result)
                              EXCEPT !.items_count = Len(created_orders[p])]]
  /\ Return(p)
  /\ daily_orders' =
       {IF result.success /\ \E i \in 1..Len(created_orders[p]) : created_orders[p][i] = r.id
          THEN [r EXCEPT !.status = "completed"]
          ELSE r : r \in daily_orders}
  /\ UNCHANGED <<next_id, base_url, addLocals, nreq>>

\* sync_result = await external_client.send_order(external_payload), then the
\* log entries (a table no handler reads) and the response.
SubmitSendStep(p, http, lost) ==
  LET result == Kept(send_order(base_url, http)) IN
  /\ pc[p] = "submit_send"
  /\ Raises(IF lost = 0 THEN "none" ELSE "log")
  /\ external_sync_log' = LogCreated(external_sync_log, created_orders[p], 1, result, lost)
  /\ response' = [code |-> 201, detail |-> "submitted",
                  data |-> [SyncData(order[p].items, result)
                              EXCEPT !.items_count = Len(created_orders[p])]]
  /\ Return(p)
  /\ UNCHANGED <<daily_orders, next_id, base_url, addLocals, nreq>>

submit_send(p) ==
  \E http \in HttpOutcomes, lost \in 0..Len(created_orders[p]) : SubmitSendStep(p, http, lost)

\* ------------------------------------------------------------------ spec

\* The store outlives the server: it starts empty or with the rows earlier
\* add_to_order requests for today left in it.
Row(id, order_date, dish_id, assigned_cook_id, quantity, notes, status) ==
  [id |-> id, order_date |-> order_date, dish_id |-> dish_id,
   assigned_cook_id |-> assigned_cook_id, quantity |-> quantity, notes |-> notes,
   status |-> status]

InitialOrders ==
  { {},
    {Row(1, Today, "d1", "c1", 200, "unit", "pending")},
    {Row(1, Today, "d1", "c1", 200, "unit", "pending"),
     Row(2, Today, "d2", "c2", 200, "unit", "pending")} }

Init ==
  /\ daily_orders \in InitialOrders
  /\ next_id = Cardinality(daily_orders) + 1
  /\ external_sync_log = EmptyBag
  /\ base_url \in {"", "url"}
  /\ pc = [p \in Procs |-> "idle"]
  /\ order_data = [p \in Procs |-> NoOrderData]
  /\ existing = [p \in Procs |-> {}]
  /\ orders = [p \in Procs |-> <<>>]
  /\ order = [p \in Procs |-> NoOrder]
  /\ created_orders = [p \in Procs |-> <<>>]
  /\ idx = [p \in Procs |-> 0]
  /\ sync_result = [p \in Procs |-> NoResult]
  /\ response = NoResponse
  /\ nreq = 0
  /\ faults = 0

Next ==
  \E p \in Procs :
    \/ add_to_order(p)
    \/ upsert_daily_order(p)
    \/ update_item(p)
    \/ delete_item(p)
    \/ finalize_order(p)
    \/ finalize_send(p)
    \/ finalize_update(p)
    \/ finalize_log(p)
    \/ submit_order(p)
    \/ submit_item(p)
    \/ submit_send(p)

Spec == Init /\ [][Next]_vars

\* Requests served one at a time: a request arrives only when no handler runs.
AllIdle == \A p \in Procs : Idle(p)
NextSeq ==
  \E p \in Procs :
    \/ AllIdle /\ add_to_order(p)
    \/ upsert_daily_order(p)
    \/ AllIdle /\ update_item(p)
    \/ AllIdle /\ delete_item(p)
    \/ AllIdle /\ finalize_order(p)
    \/ finalize_send(p)
    \/ finalize_update(p)
    \/ finalize_log(p)
    \/ AllIdle /\ submit_order(p)
    \/ submit_item(p)
    \/ submit_send(p)
SpecSeq == Init /\ [][NextSeq]_vars

\* Concurrent add_to_order requests and nothing else.
NextAdd == \E p \in Procs : add_to_order(p) \/ upsert_daily_order(p)
SpecAdd == Init /\ [][NextAdd]_vars

\* ---------------------------------------------------------------- claims

\* The lines of one (order_date, dish_id) key, and the quantity they store.
KeyLines(table, order_date, dish_id) ==
  {r \in table : r.order_date = order_date /\ r.dish_id = dish_id}

RECURSIVE SumQuantity(_)
SumQuantity(rows) ==
  IF rows = {} THEN 0
  ELSE LET r == CHOOSE x \in rows : TRUE IN r.quantity + SumQuantity(rows \ {r})

\* A row a step has just inserted.
Inserted == {r \in daily_orders' : r.id = next_id /\ next_id' = next_id + 1}

\* The dishes whose default_cook_id is null.
NoDefaultCook(dish_id) == \E d \in dishes : d.id = dish_id /\ d.default_cook_id = None

AddFaults == {"none", "dish", "select"}
SubmitFaults == {"none", "dish", "cook", "write"}

\* C1: concurrent add_to_order calls for one (order_date, dish_id) key never
\* overwrite one another: whatever ran between an add's read and its write, the
\* write raises the quantity stored for the key by exactly the requested
\* quantity, so that once both calls have finished the key stores the prior
\* quantity + q1 + q2.
C1_AddsNeverOverwrite ==
  [][\A p \in Procs :
       LET od == order_data[p] IN
       (UpsertWriteStep(p, "none") /\ response'.code = 200) =>
         SumQuantity(KeyLines(daily_orders', od.order_date, od.dish_id))
           = SumQuantity(KeyLines(daily_orders, od.order_date, od.dish_id)) + od.quantity
    ]_vars

\* C2: when requests do not overlap, a successful upsert to a key that has no
\* line leaves exactly one pending line for the key, with the requested quantity
\* and the resolved cook; a successful upsert to a key that has one line leaves
\* exactly that line, its quantity raised by the requested quantity.  Two
\* upserts q1 then q2 from no line thus leave one line of q1 + q2.
C2_SequentialUpsert ==
  [][\A p \in Procs :
       LET od == order_data[p]
           before == KeyLines(daily_orders, od.order_date, od.dish_id)
           after == KeyLines(daily_orders', od.order_date, od.dish_id)
       IN
       (UpsertWriteStep(p, "none") /\ response'.code = 200 /\ Cardinality(before) <= 1) =>
         /\ Cardinality(after) = 1
         /\ \A r \in after :
              /\ r.quantity = SumQuantity(before) + od.quantity
              /\ \A b \in before : r.id = b.id
              /\ before = {} => r.assigned_cook_id = od.assigned_cook_id /\ r.status = "pending"
    ]_vars

\* Two adds, of 200 and of 300, one after the other onto an empty table left one
\* line of 500 with the dish's default cook.
C2_Witness ==
  /\ AllIdle /\ nreq = 2 /\ next_id = 2
  /\ response = Respond(200, "added")
  /\ \E r \in daily_orders :
       /\ daily_orders = {r}
       /\ r.dish_id = "d1" /\ r.quantity = 500 /\ r.assigned_cook_id = "c1"

\* C3: in every reachable state daily_orders holds at most one line per
\* (order_date, dish_id) pair.
C3_OneLinePerKey ==
  \A r1, r2 \in daily_orders :
    (r1.order_date = r2.order_date /\ r1.dish_id = r2.dish_id) => r1 = r2

\* C4: an add_to_order request or submit_order item that carries an explicit
\* (non-empty) assigned_cook_id resolves to that id whatever the dish's default,
\* and the line a handler inserts for it is stored with that cook.
C4_ExplicitCookWins ==
  [][\A p \in Procs :
       /\ \A request \in AddToOrderRequest, fault \in AddFaults, first \in 0..(next_id - 1) :
            ( /\ AddToOrderStep(p, request, fault, first)
              /\ pc'[p] = "upsert_write"
              /\ Truthy(request.assigned_cook_id) ) =>
              order_data'[p].assigned_cook_id = request.assigned_cook_id
       /\ (UpsertWriteStep(p, "none") /\ next_id' # next_id) =>
            /\ Inserted # {}
            /\ \A r \in Inserted : r.assigned_cook_id = order_data[p].assigned_cook_id
       /\ \A request \in OrderCreate, fault \in SubmitFaults :
            ( /\ SubmitOrderStep(p, request, fault)
              /\ next_id' # next_id
              /\ Truthy(request.items[1].assigned_cook_id) ) =>
              /\ Inserted # {}
              /\ \A r \in Inserted : r.assigned_cook_id = request.items[1].assigned_cook_id
       /\ \A fault \in SubmitFaults :
            ( /\ SubmitItemStep(p, fault)
              /\ next_id' # next_id
              /\ Truthy(order[p].items[idx[p]].assigned_cook_id) ) =>
              /\ Inserted # {}
              /\ \A r \in Inserted : r.assigned_cook_id = order[p].items[idx[p]].assigned_cook_id
    ]_vars

\* One add_to_order with the explicit cook c2 for d1, whose default cook is c1,
\* inserted the table's only line, with cook c2.
C4_Witness ==
  /\ nreq = 1 /\ response = Respond(200, "added")
  /\ \E r \in daily_orders :
       daily_orders = {r} /\ r.dish_id = "d1" /\ r.assigned_cook_id = "c2"

\* C5: a valid add_to_order request, or a submit_order item, for a dish with no
\* default cook that carries no explicit cook is rejected with HTTP 400
\* (missing default cook) once the dish is read, and its handler neither
\* creates nor modifies a line for it: daily_orders is left as it is and the
\* handler ends.
C5_NoDefaultCookRejected ==
  [][\A p \in Procs :
       LET Rejected == /\ response' = Respond(400, "no_default_cook")
                       /\ daily_orders' = daily_orders
                       /\ pc'[p] = "idle"
       IN
       /\ \A request \in AddToOrderRequest, fault \in AddFaults \ {"dish"},
             first \in 0..(next_id - 1) :
            ( /\ AddToOrderStep(p, request, fault, first)
              /\ ValidAddToOrderRequest(request)
              /\ NoDefaultCook(request.dish_id)
              /\ ~Truthy(request.assigned_cook_id) ) => Rejected
       /\ \A request \in OrderCreate, fault \in SubmitFaults \ {"dish"} :
            ( /\ SubmitOrderStep(p, request, fault)
              /\ ValidOrderCreate(request)
              /\ NoDefaultCook(request.items[1].dish_id)
              /\ ~Truthy(request.items[1].assigned_cook_id) ) => Rejected
       /\ \A fault \in SubmitFaults \ {"dish"} :
            ( /\ SubmitItemStep(p, fault)
              /\ NoDefaultCook(order[p].items[idx[p]].dish_id)
              /\ ~Truthy(order[p].items[idx[p]].assigned_cook_id) ) => Rejected
    ]_vars

\* submit_order inserted the line of its first item (d2 with the explicit cook
\* c2) into the empty table and rejected its second item, d2 with no cook, with
\* 400: the table holds the first item's line alone.
C5_Witness ==
  /\ nreq = 1 /\ next_id = 2 /\ AllIdle
  /\ response = Respond(400, "no_default_cook")
  /\ \E r \in daily_orders :
       daily_orders = {r} /\ r.dish_id = "d2" /\ r.assigned_cook_id = "c2"

\* C6: in every reachable state every line of daily_orders has a non-null
\* assigned_cook_id.
C6_CookNeverNull ==
  \A r \in daily_orders : r.assigned_cook_id # None

\* A line a handler inserted beside the two the table began with, and which
\* finalize_order then wrote: it has a cook.
C6_Witness ==
  \E r \in daily_orders :
    /\ r.id = 3 /\ r.status \in {"completed", "cancelled"}
    /\ r.assigned_cook_id \in {c.id : c \in cooks}

\* C7: in every reachable state every stored line's quantity is in [1, 500].
C7_QuantityInRange ==
  \A r \in daily_orders : r.quantity >= MinQuantity /\ r.quantity <= MaxQuantity

\* C8: no line is created with an order date before the current day.
C8_NoPastDate ==
  \A r \in daily_orders : r.order_date >= Today

\* The ids of the rows a finalize_order call fetched.
Fetched(p) == {orders[p][i].id : i \in 1..Len(orders[p])}

C10_NothingToFinalize ==
  [][\A p \in Procs, order_date \in Dates :
       ( /\ FinalizeFetchStep(p, order_date, "none")
         /\ \A r \in daily_orders : r.order_date # order_date ) =>
         /\ response' = Respond(404, "no_orders")
         /\ pc'[p] = "idle"
         /\ sync_result' = sync_result
         /\ daily_orders' = daily_orders
         /\ external_sync_log' = external_sync_log
    ]_vars

\* finalize_order answered 404 for yesterday while today's lines were in the
\* table, pending, and the log was empty.
C10_Witness ==
  /\ response = Respond(404, "no_orders")
  /\ daily_orders # {}
  /\ \A r \in daily_orders : r.order_date = Today /\ r.status = "pending"
  /\ external_sync_log = EmptyBag

\* The lines of one date, and whether a payload can be built from them
\* (ExternalOrderItem.quantity: ge=1).
DateLines(table, order_date) == {r \in table : r.order_date = order_date}
QuantitiesForwardable(rows) == \A r \in rows : r.quantity >= 1

C13_LogFailureAbsorbed ==
  [][\A p \in Procs :
       /\ FinalizeLogStep(p, "log") =>
            /\ daily_orders' = daily_orders
            /\ external_sync_log' = external_sync_log
            /\ IF idx[p] < Len(orders[p])
                 THEN pc'[p] = "finalize_update" /\ idx'[p] = idx[p] + 1
                 ELSE /\ pc'[p] = "idle"
                      /\ response'.code = 201
                      /\ response'.data.items_count = Len(orders[p])
                      /\ response'.data.external_sync = sync_result[p].success
       /\ (pc[p] # "finalize_log" /\ pc'[p] = "finalize_log") => FinalizeUpdateStep(p, "none")
       /\ \A http \in HttpOutcomes, lost \in 1..Len(created_orders[p]) :
            SubmitSendStep(p, http, lost) =>
              /\ daily_orders' = daily_orders
              /\ response'.code = 201
              /\ response'.data.items_count = Len(created_orders[p])
    ]_vars

\* A finalize_order over two lines lost the log entry of one of them and still
\* returned 201 with both lines at their new status.
C13_Witness ==
  /\ AllIdle /\ nreq = 1 /\ faults = 1
  /\ response.code = 201 /\ response.detail = "finalized"
  /\ Cardinality(daily_orders) = 2
  /\ \A r \in daily_orders : r.status = "completed"
  /\ BagCardinality(external_sync_log) = 1

C15_SkippedNotLoggedFailed ==
  [][\A p \in Procs :
       (FinalizeLogStep(p, "none") /\ sync_result[p].skipped) =>
         \A e \in BagToSet(external_sync_log') :
           CopiesIn(e, external_sync_log') > CopiesIn(e, external_sync_log) =>
             e.sync_status # "failed"
    ]_vars

\* The class of a result of send_order: success, skipped, or its error_type.
Classification(result) ==
  IF result.success THEN "success"
  ELSE IF result.skipped THEN "skipped"
  ELSE result.error_type

C17_Any2xxIsSuccess ==
  [][\A p \in Procs :
       /\ \A http \in {"2xx_json", "2xx_empty", "2xx_not_json"} :
            (FinalizeSendStep(p, http) /\ Truthy(base_url)) =>
              /\ Classification(send_order(base_url, http)) = "success"
              /\ sync_result'[p].success
              /\ NewStatus(sync_result'[p]) = "completed"
    ]_vars

\* The statuses finalize_order gives a line.
Finalized == {"completed", "cancelled"}

\* C18: a status update of finalize_order never changes a line that is already
\* completed or cancelled to a different status.
C18_FinalizedStaysFinalized ==
  [][\A p \in Procs :
       FinalizeUpdateStep(p, "none") =>
         \A r \in daily_orders :
           r.status \in Finalized =>
             \E r2 \in daily_orders' : r2.id = r.id /\ r2.status = r.status
    ]_vars

\* C19: an add_to_order whose key holds only finalized lines leaves those lines
\* as they are and inserts a fresh pending line with the requested quantity.
C19_AddAfterFinalizeIsFresh ==
  [][\A p \in Procs :
       LET od == order_data[p]
           before == KeyLines(daily_orders, od.order_date, od.dish_id)
           after == KeyLines(daily_orders', od.order_date, od.dish_id)
       IN
       (/\ UpsertWriteStep(p, "none") /\ response'.code = 200
        /\ before # {} /\ \A b \in before : b.status \in Finalized) =>
         /\ before \subseteq after
         /\ \E r \in after \ before : r.status = "pending" /\ r.quantity = od.quantity
    ]_vars

EmbeddedDish(row) ==
  {[id |-> d.id, name |-> d.name] : d \in {x \in dishes : x.id = row.dish_id}}
EmbeddedCook(row) ==
  {[id |-> c.id, name |-> c.name] : c \in {x \in cooks : x.id = row.assigned_cook_id}}

\* dish.get('preparation_time') on the embedded dish: the key's value, or None
\* when the embedded dish has no such key.
EmbeddedPreparationTime(row) ==
  UNION {IF "preparation_time" \in DOMAIN d THEN d.preparation_time ELSE {} :
           d \in EmbeddedDish(row)}

\* ExternalOrderItem(...) as finalize_order builds it from a fetched row.
ExternalOrderItem(row) ==
  [dish_name |-> {d.name : d \in EmbeddedDish(row)},
   quantity |-> row.quantity,
   cook_name |-> {c.name : c \in EmbeddedCook(row)},
   preparation_time |-> EmbeddedPreparationTime(row),
   notes |-> row.notes]

\* ExternalOrderPayload(...) as finalize_order builds it from the fetched rows.
ExternalOrderPayload(rows) ==
  [order_date |-> rows[1].order_date,
   total_dishes |-> TotalQuantity(rows),
   items |-> [i \in 1..Len(rows) |-> ExternalOrderItem(rows[i])]]

\* C21: the payload finalize_order forwards has one item per fetched line, with
\* the line's dish name, quantity, cook name and notes and the preparation time
\* of the line's dish when the dish has one, and its total is the sum of the
\* fetched quantities.
C21_PayloadReflectsLines ==
  [][\A p \in Procs, http \in HttpOutcomes :
       FinalizeSendStep(p, http) =>
         LET payload == ExternalOrderPayload(orders[p]) IN
         /\ Len(payload.items) = Len(orders[p])
         /\ payload.total_dishes = TotalQuantity(orders[p])
         /\ \A i \in 1..Len(orders[p]) :
              LET row == orders[p][i]
                  item == payload.items[i]
              IN /\ item.quantity = row.quantity
                 /\ item.notes = row.notes
                 /\ item.dish_name = {d.name : d \in {x \in dishes : x.id = row.dish_id}}
                 /\ item.cook_name = {c.name : c \in {x \in cooks : x.id = row.assigned_cook_id}}
                 /\ \A d \in dishes :
                      d.id = row.dish_id => item.preparation_time = d.preparation_time
    ]_vars

\* C22: with the requests served one at a time, an add_to_order that finds a
\* line for its key leaves that line with the notes of this request alone (as
\* the handler formats them, also when the request has none) and with the
\* line's quantity plus the requested quantity.
C22_NotesReplacedQuantityAdded ==
  [][\A p \in Procs :
       (UpsertWriteStep(p, "none") /\ response'.code = 200 /\ existing[p] # {}) =>
         \A e \in existing[p] :
           \A old \in {r \in daily_orders : r.id = e.id} :
             \E new \in daily_orders' :
               /\ new.id = old.id
               /\ new.notes = order_data[p].notes
               /\ new.notes \in {FormatNotes(request.notes) : request \in AddToOrderRequest}
               /\ new.quantity = old.quantity + order_data[p].quantity
    ]_vars

\* An add of 300 with notes and then an add of 200 without notes onto an empty
\* table left one line of 500 whose notes are those of the second request.
C22_Witness ==
  /\ AllIdle /\ nreq = 2 /\ next_id = 2
  /\ response = Respond(200, "added")
  /\ \E r \in daily_orders :
       /\ daily_orders = {r}
       /\ r.quantity = 500 /\ r.notes = FormatNotes(None)

\* C23: an add_to_order, or a first submit_order item, that names an explicit
\* cook id referencing no cook (the request being valid and its dish existing)
\* is answered 404 at once, with the store left as it is.
C23_UnknownCookRejected ==
  [][\A p \in Procs :
       /\ \A request \in AddToOrderRequest, first \in 0..(next_id - 1) :
            (/\ AddToOrderStep(p, request, "none", first)
             /\ ValidAddToOrderRequest(request)
             /\ get_dish_by_id(request.dish_id, TRUE) # {}
             /\ Truthy(request.assigned_cook_id)
             /\ get_cook_by_id(request.assigned_cook_id, TRUE) = {}) =>
              response'.code = 404 /\ pc'[p] = "idle" /\ UNCHANGED store
       /\ \A request \in OrderCreate :
            (/\ SubmitOrderStep(p, request, "none")
             /\ ValidOrderCreate(request)
             /\ get_dish_by_id(request.items[1].dish_id, TRUE) # {}
             /\ Truthy(request.items[1].assigned_cook_id)
             /\ get_cook_by_id(request.items[1].assigned_cook_id, TRUE) = {}) =>
              response'.code = 404 /\ pc'[p] = "idle" /\ UNCHANGED store
    ]_vars

\* C24: with the requests served one at a time, when the status update of the
\* k-th fetched line raises, finalize_order ends with 500 and that step changes
\* no line and no log entry: the lines before the k-th have the new status (and,
\* no log write having failed, their log entries), the k-th and later lines
\* have the status they were fetched with.
C24_NotAtomicAcrossLines ==
  [][\A p \in Procs :
       FinalizeUpdateStep(p, "write") =>
         /\ response'.code = 500 /\ pc'[p] = "idle"
         /\ daily_orders' = daily_orders
         /\ external_sync_log' = external_sync_log
         /\ \A i \in 1..Len(orders[p]) :
              \E r \in daily_orders' :
                /\ r.id = orders[p][i].id
                /\ r.status = (IF i < idx[p] THEN NewStatus(sync_result[p])
                               ELSE orders[p][i].status)
         /\ faults = 0 =>
              \A i \in 1..(idx[p] - 1) :
                CopiesIn(LogData(orders[p][i].id, sync_result[p]), external_sync_log') >= 1
    ]_vars

\* A finalize_order over two pending lines failed at the update of the second:
\* it answered 500, the first line is completed and logged, the second pending.
C24_Witness ==
  /\ AllIdle /\ nreq = 1 /\ faults = 1
  /\ response = Respond(500, "store")
  /\ BagCardinality(external_sync_log) = 1
  /\ \E r1, r2 \in daily_orders :
       /\ daily_orders = {r1, r2}
       /\ r1.id = 1 /\ r1.status = "completed"
       /\ r2.id = 2 /\ r2.status = "pending"
       /\ \A e \in BagToSet(external_sync_log) : e.order_id = 1

C26_CompletedOnlyByFinalize ==
  [][/\ \A r2 \in daily_orders' :
          \/ \E r \in daily_orders : r.id = r2.id /\ r.status = r2.status
          \/ r2.status = "pending" /\ ~\E r \in daily_orders : r.id = r2.id
          \/ \E p \in Procs :
               /\ FinalizeUpdateStep(p, "none")
               /\ orders[p][idx[p]].id = r2.id
               /\ orders[p][1].order_date = r2.order_date
               /\ r2.status = (IF sync_result[p].success THEN "completed" ELSE "cancelled")
     /\ \A p \in Procs, http \in HttpOutcomes :
          \A lost \in 0..Len(created_orders[p]) :
            SubmitSendStep(p, http, lost) => daily_orders' = daily_orders
    ]_vars

\* A submit_order whose own forward succeeded has returned, and the line it
\* created on the empty table is pending.
C26_Witness ==
  /\ AllIdle /\ nreq = 1
  /\ response.code = 201 /\ response.detail = "submitted"
  /\ response.data.external_sync = TRUE
  /\ BagCardinality(external_sync_log) >= 1
  /\ daily_orders # {}
  /\ \A r \in daily_orders : r.status = "pending"

\* C27: the write of an add_to_order that found a line for its key changes that
\* line's quantity and notes only: its assigned_cook_id, status, order_date and
\* dish_id stay as they are, also when the request's cook differs from the
\* line's, and every other line stays as it is.
C27_UpsertTouchesQuantityNotesOnly ==
  [][\A p \in Procs :
       (UpsertWriteStep(p, "none") /\ response'.code = 200 /\ existing[p] # {}) =>
         \A e \in existing[p] :
           /\ \A r \in daily_orders :
                r.id # e.id => r \in daily_orders'
           /\ \A r2 \in daily_orders' : \E r \in daily_orders : r.id = r2.id
           /\ \A r \in daily_orders :
                r.id = e.id =>
                  \E r2 \in daily_orders' :
                    /\ r2 = [r EXCEPT !.quantity = r2.quantity, !.notes = r2.notes]
                    /\ r2.assigned_cook_id = r.assigned_cook_id
                    /\ r2.status = r.status
    ]_vars

\* The add_to_order of 100 naming cook c2 was added onto the line of 200 of
\* (today, d1), whose cook is still c1.
C27_Witness ==
  /\ AllIdle /\ nreq = 1
  /\ response = Respond(200, "added")
  /\ \E r \in daily_orders :
       /\ r.id = 1 /\ r.dish_id = "d1" /\ r.assigned_cook_id = "c1"
       /\ r.quantity = 300 /\ r.status = "pending"
  /\ Cardinality(daily_orders) = 2

\* C28: with the requests served one at a time, when a later item of a
\* submit_order is rejected (dish not found, cook not found, no default cook)
\* or its insert fails, the call ends with that error and the step changes no
\* line and no log entry: the lines inserted for the earlier items are still
\* there, pending; and the forwarder is reached only after every item was
\* inserted, so no POST is made and no log entry written for them.
C28_SubmitNotAtomic ==
  [][\A p \in Procs :
       /\ \A fault \in {"none", "dish", "cook", "write"} :
            (SubmitItemStep(p, fault) /\ pc'[p] = "idle") =>
              /\ response'.code \in {400, 404, 500}
              /\ daily_orders' = daily_orders
              /\ external_sync_log' = external_sync_log
              /\ Len(created_orders[p]) = idx[p] - 1
              /\ \A k \in 1..Len(created_orders[p]) :
                   \E r \in daily_orders' :
                     /\ r.id = created_orders[p][k]
                     /\ r.status = "pending"
                     /\ r.dish_id = order[p].items[k].dish_id
       /\ (pc'[p] = "submit_send" /\ pc[p] # "submit_send") =>
            Len(created_orders'[p]) = Len(order'[p].items)
       /\ (pc[p] = "submit_item" /\ pc'[p] # "submit_item") =>
            \E fault \in {"none", "dish", "cook", "write"} : SubmitItemStep(p, fault)
       /\ \A fault \in {"none", "dish", "cook", "write"} :
            SubmitItemStep(p, fault) => external_sync_log' = external_sync_log
    ]_vars

\* A submit_order of two items on an empty table was rejected at its second
\* item, whose cook does not exist: the first item's line is there, pending,
\* and the log is empty.
C28_Witness ==
  /\ AllIdle /\ nreq = 1 /\ faults = 0
  /\ response = Respond(404, "cook")
  /\ external_sync_log = EmptyBag
  /\ \E r \in daily_orders :
       /\ daily_orders = {r}
       /\ r.id = 1 /\ r.dish_id = "d1" /\ r.status = "pending"

\* C29: a finalize_order whose fetch returns a line with a quantity below 1
\* answers 500 in that step, before the forwarder, and leaves every line, the
\* sync log and the call's outcome untouched.
C29_BadQuantityFailsBeforeForward ==
  [][\A p \in Procs, order_date \in Dates :
       (/\ FinalizeFetchStep(p, order_date, "none")
        /\ \E r \in DateLines(daily_orders, order_date) : r.quantity < 1) =>
         /\ response'.code = 500
         /\ pc'[p] = "idle"
         /\ daily_orders' = daily_orders
         /\ external_sync_log' = external_sync_log
         /\ sync_result'[p] = NoResult
    ]_vars

\* update_item stored quantity 0 on a line and the finalize_order that followed
\* answered 500: both lines are pending and the log is empty.
C29_Witness ==
  /\ AllIdle /\ nreq = 2
  /\ response = Respond(500, "payload")
  /\ external_sync_log = EmptyBag
  /\ Cardinality(daily_orders) = 2
  /\ \E r \in daily_orders : r.quantity < 1
  /\ \A r \in daily_orders : r.status = "pending"

\* C30: finalize_order works on the lines of its initial fetch and on no
\* others, whatever runs concurrently: the fetched list stays as fetched during
\* the call; a status update changes only the status of the fetched line it is
\* at, keeping the quantity the line has by then, and touches no other line
\* (so a line inserted after the fetch stays as inserted); a log write appends
\* an entry for the fetched line it is at and for no other; and the returned
\* total_dishes and items_count are those of the fetched lines.
C30_OnlyFetchedLines ==
  [][\A p \in Procs :
       /\ (pc[p] \in {"finalize_send", "finalize_update", "finalize_log"}
             /\ pc'[p] \in {"finalize_send", "finalize_update", "finalize_log"}) =>
            orders'[p] = orders[p]
       /\ FinalizeUpdateStep(p, "none") =>
            /\ \A r \in daily_orders :
                 IF r.id = orders[p][idx[p]].id
                   THEN [r EXCEPT !.status = NewStatus(sync_result[p])] \in daily_orders'
                   ELSE r \in daily_orders'
            /\ Cardinality(daily_orders') = Cardinality(daily_orders)
       /\ FinalizeLogStep(p, "none") =>
            \A e \in BagToSet(external_sync_log') :
              CopiesIn(e, external_sync_log') # CopiesIn(e, external_sync_log) =>
                e.order_id = orders[p][idx[p]].id
       /\ \A fault \in {"none", "log"} :
            (FinalizeLogStep(p, fault) /\ idx[p] = Len(orders[p])) =>
              /\ response'.data.total_dishes = TotalQuantity(orders[p])
              /\ response'.data.items_count = Len(orders[p])
    ]_vars

\* A finalize_order that fetched two lines of 200 returned total_dishes 400
\* while an add_to_order that ran after its fetch had raised a fetched line's
\* quantity: the table holds more than 400, all of it on finalized lines.
C30_Witness ==
  /\ AllIdle /\ nreq = 2
  /\ response.code = 201 /\ response.detail = "finalized"
  /\ response.data.total_dishes = 400
  /\ Cardinality(daily_orders) = 2
  /\ \A r \in daily_orders : r.status \in Finalized
  /\ \E r \in daily_orders : r.quantity > 200

====
